---- MODULE Spec2Model ----
(***************************************************************************)
(* ProjectileSimulator (projectile-motion-simulator.cpp): the trajectory   *)
(* engine, its two integration loops and the metrics read from the stored  *)
(* trajectory.                                                             *)
(*                                                                         *)
(* The program's floats are modelled in fixed point, in units chosen so    *)
(* that the products with the time step are exact:                         *)
(*   time          1 tick = 0.01 s  (numerical dt = 1, analytical dt = 2)  *)
(*   acceleration  1 unit = 0.1 m/s^2     (Earth gravity 9.8 = 98)         *)
(*   velocity      1 unit = 0.001 m/s     (acceleration * 1 tick)          *)
(*   position      1 unit = 0.00001 m     (velocity * 1 tick)              *)
(*   force         1 unit = 0.0001 N                                       *)
(*   mass          1 unit = 1 g           (default 1.0 kg = 1000)          *)
(*   drag coefficient, area   in hundredths (0.47 = 47, 0.01 = 1)          *)
(*   air density   in thousandths (1.225 = 1225)                           *)
(* Quotients and the square root are truncated toward zero.  Infinities,   *)
(* NaN and float overflow are outside the model: the inputs are finite,    *)
(* gravity and mass are never zero, and every value stays below 2^31.      *)
(***************************************************************************)
EXTENDS Integers, Sequences, FiniteSets, TLC

VARIABLES
    data,              \* ProjectileSimulator::data (a ProjectileData)
    trajectoryPoints,  \* ProjectileSimulator::trajectoryPoints
    pc,                \* idle after construction, done once calculateTrajectory has returned
    t,                 \* calculateAnalytical's t when the last call returned
    x, y,              \* calculateNumerical's x, y when the last call returned
    vx, vy,            \* the loops' vx, vy when the last call returned
    calls,             \* calculateTrajectory calls made on this simulator
    firstTrajectory,   \* history: what the simulator's first call stored
    comparison         \* compareAirResistance's velocity, angle and the two ranges

vars == <<data, trajectoryPoints, pc, t, x, y, vx, vy, calls, firstTrajectory, comparison>>

----------------------------------------------------------------------------
\* Bounds of the model.

MaxCalls == 2

----------------------------------------------------------------------------
\* Program constants.

MaxSamples == 10000
AnalyticalDt == 2
NumericalDt == 1
AIR_DENSITY == 1225
CROSS_SECTION_AREA == 1
SpeedThreshold == 1
FlightStepDrag == 1
FlightStepNoDrag == 2
DefaultGravity == 98
DefaultDragCoefficient == 47
DefaultMass == 1000

----------------------------------------------------------------------------
\* Arithmetic.

\* a / b for b > 0, truncated toward zero.
TDiv(a, b) == IF a < 0 THEN -((-a) \div b) ELSE a \div b

RECURSIVE SqrtSearch(_, _, _)
SqrtSearch(n, lo, hi) ==
    IF lo >= hi THEN lo
    ELSE LET mid == (lo + hi + 1) \div 2
         IN  IF mid * mid <= n THEN SqrtSearch(n, mid, hi)
             ELSE SqrtSearch(n, lo, mid - 1)

\* sqrt(n), truncated; 46340 is the largest root of a 31-bit value.
Sqrt(n) == SqrtSearch(n, 0, 46340)

\* The launch angles of the model, in degrees, with 1000 * sin and 1000 * cos.
Angles == {-90, -45, -30, 0, 15, 30, 45, 60, 75, 90, 135}

Sin1000(angle) ==
    CASE angle = -90 -> -1000
      [] angle = -45 -> -707
      [] angle = -30 -> -500
      [] angle = 0   -> 0
      [] angle = 15  -> 259
      [] angle = 30  -> 500
      [] angle = 45  -> 707
      [] angle = 60  -> 866
      [] angle = 75  -> 966
      [] angle = 90  -> 1000
      [] angle = 135 -> 707

Cos1000(angle) ==
    CASE angle = -90 -> 0
      [] angle = -45 -> 707
      [] angle = -30 -> 866
      [] angle = 0   -> 1000
      [] angle = 15  -> 966
      [] angle = 30  -> 866
      [] angle = 45  -> 707
      [] angle = 60  -> 500
      [] angle = 75  -> 259
      [] angle = 90  -> 0
      [] angle = 135 -> -707

----------------------------------------------------------------------------
\* Data.

Vector2D(px, py) == [x |-> px, y |-> py]

ProjectileData(v, angle, g, air, cd, m) ==
    [initialVelocity |-> v, angle |-> angle, gravity |-> g,
     airResistance |-> air, dragCoefficient |-> cd, mass |-> m]

\* vx = initialVelocity * cos(angleRad), vy = initialVelocity * sin(angleRad)
InitialVx(d) == TDiv(d.initialVelocity * Cos1000(d.angle), 1000)
InitialVy(d) == TDiv(d.initialVelocity * Sin1000(d.angle), 1000)

----------------------------------------------------------------------------
\* The two loops.  A loop is run pass by pass on a record of its locals and
\* the points stored so far; running is FALSE once the loop has been left.

LoopStart(d) ==
    [t |-> 0, x |-> 0, y |-> 0, vx |-> InitialVx(d), vy |-> InitialVy(d),
     pts |-> <<>>, running |-> TRUE]

\* calculateAnalytical.

\* t <= totalTime, with totalTime = 2 * vy / gravity (gravity # 0).
TimeWithinTotal(tt, vy0, g) ==
    IF g > 0 THEN tt * g <= 2 * vy0 ELSE tt * g >= 2 * vy0

AnalyticalX(vx0, tt) == vx0 * tt

\* tt is even, so the halving is exact.
AnalyticalY(vy0, g, tt) == vy0 * tt - (g * tt * tt) \div 2

AnalyticalBreak(py) == py < 0

\* One pass of the for loop: the test, the body, the increment.
AnalyticalPass(d, s) ==
    IF /\ TimeWithinTotal(s.t, s.vy, d.gravity)
       /\ ~AnalyticalBreak(AnalyticalY(s.vy, d.gravity, s.t))
    THEN [s EXCEPT !.pts = Append(s.pts, Vector2D(AnalyticalX(s.vx, s.t),
                                                  AnalyticalY(s.vy, d.gravity, s.t))),
                   !.t = s.t + AnalyticalDt]
    ELSE [s EXCEPT !.running = FALSE]

\* calculateNumerical.

Speed(pvx, pvy) == Sqrt(pvx * pvx + pvy * pvy)

\* 0.5 * AIR_DENSITY * dragCoefficient * CROSS_SECTION_AREA * speed * speed
DragForce(cd, speed) ==
    (((((speed * speed) \div 10000) * cd) \div 100)
        * AIR_DENSITY * CROSS_SECTION_AREA) \div 2000

\* Mutant of DragAccel: the drag acts along the velocity instead of against it.
DragAccelAlongVelocity(d, pv, speed) ==
    IF speed > SpeedThreshold
    THEN TDiv(TDiv(DragForce(d.dragCoefficient, speed), d.mass) * pv, speed)
    ELSE 0

\* -(dragForce / mass) * (v / speed), zero at or below the speed threshold.
DragAccel(d, pv, speed) ==
    IF speed > SpeedThreshold
    THEN -TDiv(TDiv(DragForce(d.dragCoefficient, speed), d.mass) * pv, speed)
    ELSE 0

\* The velocity after one update by drag and gravity.
StepVelocity(d, pvx, pvy) ==
    LET speed == Speed(pvx, pvy)
    IN  [vx |-> pvx + DragAccel(d, pvx, speed) * NumericalDt,
         vy |-> pvy + (DragAccel(d, pvy, speed) - d.gravity) * NumericalDt]

\* Mutant of NumericalStep: the position is advanced with the velocity of the
\* step before, and the velocity updated afterwards.
NumericalStepPositionFirst(d, s) ==
    LET v == StepVelocity(d, s.vx, s.vy)
    IN  [s EXCEPT !.vx = v.vx, !.vy = v.vy,
                  !.x = s.x + s.vx * NumericalDt,
                  !.y = s.y + s.vy * NumericalDt]

\* The loop body after the push: velocity first, then position.
NumericalStep(d, s) ==
    LET v == StepVelocity(d, s.vx, s.vy)
    IN  [s EXCEPT !.vx = v.vx, !.vy = v.vy,
                  !.x = s.x + v.vx * NumericalDt,
                  !.y = s.y + v.vy * NumericalDt]

LoopCondition(py) == py >= 0

CapReached(size) == size > MaxSamples

\* Mutant of NumericalPass: the point is pushed after the step, so the position
\* that ends the loop is stored too.
NumericalPassPushAfter(d, s) ==
    IF LoopCondition(s.y)
    THEN LET n == NumericalStep(d, s)
             pushed == Append(s.pts, Vector2D(n.x, n.y))
         IN  [n EXCEPT !.pts = pushed, !.running = ~CapReached(Len(pushed))]
    ELSE [s EXCEPT !.running = FALSE]

\* One pass of the while loop: the test, the push, the step, the cap.
NumericalPass(d, s) ==
    IF LoopCondition(s.y)
    THEN LET pushed == Append(s.pts, Vector2D(s.x, s.y))
         IN  [NumericalStep(d, s) EXCEPT !.pts = pushed,
                                         !.running = ~CapReached(Len(pushed))]
    ELSE [s EXCEPT !.running = FALSE]

LoopPass(d, s) ==
    IF ~s.running THEN s
    ELSE IF d.airResistance THEN NumericalPass(d, s) ELSE AnalyticalPass(d, s)

\* n passes, n >= 1 (halved, to keep the evaluation shallow).
RECURSIVE Passes(_, _, _)
Passes(d, s, n) ==
    IF ~s.running THEN s
    ELSE IF n = 1 THEN LoopPass(d, s)
    ELSE Passes(d, Passes(d, s, n \div 2), n - n \div 2)

\* Passes until the loop is left.
RECURSIVE RunLoop(_, _, _)
RunLoop(d, s, n) ==
    LET r == Passes(d, s, n)
    IN  IF r.running THEN RunLoop(d, r, 2 * n) ELSE r

\* Mutant of Cleared: the points of the call before are kept.
NotCleared(prior) == prior

\* trajectoryPoints.clear()
Cleared(prior) == <<>>

\* calculateTrajectory on a simulator holding d and the points prior: the
\* locals and the stored points when it returns.
Calculated(d, prior) == RunLoop(d, [LoopStart(d) EXCEPT !.pts = Cleared(prior)], 64)

----------------------------------------------------------------------------
\* The metrics.

\* maxH starts at 0 and rises to every larger point.y: the largest of 0 and the y's.
MaxHeightOf(pts) ==
    LET ys == {0} \cup {pts[i].y : i \in 1..Len(pts)}
    IN  CHOOSE maxH \in ys : \A other \in ys : other <= maxH

\* Mutant of RangeOf: back() without the empty() test; on an empty vector it
\* reads an element that is not there.
RangeOfUnguarded(pts) ==
    (IF Len(pts) = 0 THEN Vector2D(-1, -1) ELSE pts[Len(pts)]).x

RangeOf(pts) == IF pts = <<>> THEN 0 ELSE pts[Len(pts)].x

\* Mutant of FlightTimeOf: the steps between the points instead of the points.
FlightTimeOfIntervals(pts, air) ==
    (Len(pts) - 1) * (IF air THEN FlightStepDrag ELSE FlightStepNoDrag)

\* In ticks of 0.01 s.
FlightTimeOf(pts, air) == Len(pts) * (IF air THEN FlightStepDrag ELSE FlightStepNoDrag)

getMaxHeight == MaxHeightOf(trajectoryPoints)
getRange == RangeOf(trajectoryPoints)
getFlightTime == FlightTimeOf(trajectoryPoints, data.airResistance)


----------------------------------------------------------------------------
\* The simulator's operations.

Velocities == {-3000, 0, 2000, 30000}
SimAngles == {-90, -30, 0, 45, 90}
Gravities == {98, 248}
DragParameters == {<<DefaultDragCoefficient, DefaultMass>>, <<200, 3>>}

\* Every combination under a positive gravity; under a negative one only the
\* analytical path, which still returns at once (the numerical path would climb
\* until the sample cap).
Inputs ==
    {ProjectileData(v, a, g, air, dp[1], dp[2]) :
        v \in Velocities, a \in SimAngles, g \in Gravities,
        air \in BOOLEAN, dp \in DragParameters}
    \cup {ProjectileData(v, a, -DefaultGravity, FALSE, DefaultDragCoefficient, DefaultMass) :
            v \in Velocities, a \in SimAngles}

NoComparison == [velocity |-> 0, angle |-> 0, without |-> 0, with |-> 0, made |-> FALSE]

InitWith(S) ==
    /\ data \in S
    /\ trajectoryPoints = <<>>
    /\ pc = "idle"
    /\ t = 0 /\ x = 0 /\ y = 0 /\ vx = 0 /\ vy = 0
    /\ calls = 0
    /\ firstTrajectory = <<>>
    /\ comparison = NoComparison

Init == InitWith(Inputs)

calculateTrajectory ==
    /\ calls < MaxCalls
    /\ LET r == Calculated(data, trajectoryPoints)
       IN  /\ trajectoryPoints' = r.pts
           /\ t' = r.t /\ x' = r.x /\ y' = r.y /\ vx' = r.vx /\ vy' = r.vy
           /\ firstTrajectory' = IF calls = 0 THEN r.pts ELSE firstTrajectory
    /\ pc' = "done"
    /\ calls' = calls + 1
    /\ UNCHANGED <<data, comparison>>

Next == calculateTrajectory

Spec == Init /\ [][Next]_vars

----------------------------------------------------------------------------
\* Flights long enough to run into calculateNumerical's sample cap: a heavy
\* projectile (1000 kg) thrown up at 8 m/s under a gravity of 0.1 m/s^2 stays
\* up for about 160 s.

CapInputs ==
    {ProjectileData(8000, 90, 1, TRUE, DefaultDragCoefficient, 1000000),
     ProjectileData(8000, 45, 1, TRUE, DefaultDragCoefficient, 1000000)}

InitCap == InitWith(CapInputs \cup Inputs)

SpecCap == InitCap /\ [][Next]_vars

----------------------------------------------------------------------------
\* compareAirResistance: the same velocity and angle, without air resistance
\* (sim1) and with it (sim2), each in a simulator of its own built from the
\* default ProjectileData and called once.  The model runs it once.

CompareVelocities == {0, 50, 1000, 2000, 5000, 10000, 15000, 20000, 30000, 40000}

DefaultData == ProjectileData(50000, 45, DefaultGravity, FALSE, DefaultDragCoefficient, DefaultMass)

compareAirResistance(velocity, angle) ==
    /\ ~comparison.made
    /\ LET data1 == [DefaultData EXCEPT !.initialVelocity = velocity, !.angle = angle,
                                        !.airResistance = FALSE]
           data2 == [DefaultData EXCEPT !.initialVelocity = velocity, !.angle = angle,
                                        !.airResistance = TRUE]
       IN  comparison' = [velocity |-> velocity, angle |-> angle,
                          without |-> RangeOf(Calculated(data1, <<>>).pts),
                          with |-> RangeOf(Calculated(data2, <<>>).pts),
                          made |-> TRUE]
    /\ UNCHANGED <<data, trajectoryPoints, pc, t, x, y, vx, vy, calls, firstTrajectory>>

InitCompare == InitWith({DefaultData})

NextCompare ==
    \E velocity \in CompareVelocities, angle \in Angles : compareAirResistance(velocity, angle)

SpecCompare == InitCompare /\ [][NextCompare]_vars

----------------------------------------------------------------------------
\* The preconditions of calculateTrajectory as the specification states them.

InvalidParameter(d) ==
    \/ d.initialVelocity <= 0
    \/ d.gravity <= 0
    \/ d.airResistance /\ (d.mass <= 0 \/ d.dragCoefficient <= 0)

LastPoint == trajectoryPoints[Len(trajectoryPoints)]

----------------------------------------------------------------------------
\* C1: on the drag path the trajectory never holds more than 10,000 sample
\* points, neither during the loop nor after calculateTrajectory returns.
C1_AtMostMaxSamples == Len(trajectoryPoints) <= MaxSamples

\* C2: with initialVelocity <= 0, gravity <= 0 or (drag enabled) mass <= 0 or
\* dragCoefficient <= 0, a call never returns a result and no point is ever
\* computed and stored from those values.
C2_InvalidParameterRejected ==
    InvalidParameter(data) => pc # "done" /\ trajectoryPoints = <<>>

DragSlowsLaunch ==
    LET d == [DefaultData EXCEPT !.initialVelocity = comparison.velocity,
                                 !.angle = comparison.angle]
    IN  DragAccel(d, InitialVx(d), Speed(InitialVx(d), InitialVy(d))) # 0

C6_AtMostTheOrigin ==
    pc = "done" /\ ~InvalidParameter(data) /\ InitialVy(data) <= 0
        => /\ Len(trajectoryPoints) <= 1
           /\ Len(trajectoryPoints) = 1 => trajectoryPoints[1] = Vector2D(0, 0)
           /\ getMaxHeight = 0

\* C7: on an empty trajectory getMaxHeight, getRange and getFlightTime are 0.
C7_EmptyMetricsAreZero ==
    trajectoryPoints = <<>>
        => getMaxHeight = 0 /\ getRange = 0 /\ getFlightTime = 0

C7_Witness == pc = "done" /\ trajectoryPoints = <<>>

\* C8: whenever calculateTrajectory has returned, however many calls came
\* before, the stored trajectory is the one the first call on the fresh
\* simulator stored.
C8_ReplacedWholesale ==
    pc = "done" => trajectoryPoints = firstTrajectory

C8_Witness == pc = "done" /\ calls = 2 /\ Len(trajectoryPoints) > 1

\* C9: getFlightTime is the number of stored points times the step of the loop
\* that stored them: 0.02 s without drag, 0.01 s with drag.
C9_FlightTimeIsSamplesTimesStep ==
    getFlightTime =
        Len(trajectoryPoints) * (IF data.airResistance THEN NumericalDt ELSE AnalyticalDt)

C9_Witness ==
    /\ pc = "done" /\ data.airResistance
    /\ Len(trajectoryPoints) = 1
    /\ getFlightTime = NumericalDt

\* C10: in the numerical loop the position is advanced with the velocity
\* already updated in the same step.  The step from each stored point to the
\* next (and from the last one to the position the loop ended on) is the
\* updated velocity times dt, where the velocity being updated is the launch
\* velocity at the first step and the previous step's afterwards.
C10_VelocityThenPosition ==
    pc = "done" /\ data.airResistance /\ Len(trajectoryPoints) >= 1 =>
        LET n == Len(trajectoryPoints)
            pos(i) == IF i <= n THEN trajectoryPoints[i] ELSE Vector2D(x, y)
            before(i) == IF i = 1 THEN [vx |-> InitialVx(data), vy |-> InitialVy(data)]
                         ELSE [vx |-> (pos(i).x - pos(i - 1).x) \div NumericalDt,
                               vy |-> (pos(i).y - pos(i - 1).y) \div NumericalDt]
        IN  /\ \A i \in 1..n :
                  LET v == StepVelocity(data, before(i).vx, before(i).vy)
                  IN  /\ pos(i + 1).x = pos(i).x + v.vx * NumericalDt
                      /\ pos(i + 1).y = pos(i).y + v.vy * NumericalDt
            /\ x = pos(n).x + vx * NumericalDt
            /\ y = pos(n).y + vy * NumericalDt

C10_Witness ==
    /\ pc = "done" /\ data.airResistance
    /\ Len(trajectoryPoints) >= 3
    /\ trajectoryPoints[2].y # InitialVy(data) * NumericalDt
    /\ trajectoryPoints[2].x # InitialVx(data) * NumericalDt

====
